---- MODULE Spec2Model ----
(***************************************************************************)
(* A model of runthis.py, the StubHub parking-listing scraper: the two     *)
(* scrape passes and their merge/filter in main(), the per-event wizard    *)
(* (interact_with_event_and_select_tickets), the per-seat loop             *)
(* (get_all_seats_labels, select_seat_in_dropdown), the comparison-page    *)
(* harvest with its scroll loop (interact_with_ticket_price_page) and the  *)
(* browser's window handles the script opens, switches between and closes. *)
(*                                                                         *)
(* The web site is the environment.  A wizard tab shows one page at a      *)
(* time (EventList, QuantityForm, TicketTypeForm, SeatSelect, PricePage,   *)
(* ComparePage); a WebDriverWait for an element succeeds only on the page  *)
(* that holds the element, and even there the environment may let it time  *)
(* out (counted in `faults`).                                              *)
(***************************************************************************)
EXTENDS Integers, Sequences, FiniteSets, TLC

\* ---------------------------------------------------------------- constants

\* The placeholder scrape_events stores for a field whose element is absent.
NA == "N/A"

MAX_EVENTS_TO_SCRAPE == 8

\* The handle main() stores as original_window: the tab opened by webdriver.Chrome.
OriginalWindow == 0

\* ------------------------------------------------------------------- bounds

\* Longest scrape pass handed to the merge when it is examined on its own.
MaxPassLen == 2
\* Most event cards on the listing page.
MaxCards == 2
\* Most options in the seat dropdown.
MaxOptions == 2
\* Most listing items a comparison page ever renders.
MaxListings == 3
\* Most waits the environment lets time out in one run although their element is there.
MaxFaults == 1
\* Most iterations of the scroll loop followed on a page that never stops growing.
MaxScrolls == 3

\* ------------------------------------------------------------ event values

Event(d, t, n, l) == [date |-> d, time |-> t, name |-> n, location |-> l]

EvShow      == Event("Apr 1", "7pm", "Show", "Arena")
\* the same show, a later start: differs from EvShow in time only
EvShowLate  == Event("Apr 1", "9pm", "Show", "Arena")
\* the time element is missing on the card
EvShowNoTime == Event("Apr 1", NA, "Show", "Arena")
EvGame      == Event("May 2", "8pm", "Game", "Arena")
\* two cards whose fields differ but whose joined text coincides
EvJoinX     == Event("c", "7pm", "a_b", "Arena")
EvJoinY     == Event("b_c", "7pm", "a", "Arena")
\* a placeholder card: none of the four elements is present
EvPlaceholder == Event(NA, NA, NA, NA)

MergeEvents == {EvShow, EvShowLate, EvShowNoTime, EvJoinX, EvJoinY, EvPlaceholder}
PageEvents  == {EvShow, EvShowNoTime, EvGame, EvPlaceholder}

\* All sequences over S of length at most n.
RECURSIVE SeqsUpTo(_, _)
SeqsUpTo(S, n) ==
    IF n = 0 THEN {<<>>}
    ELSE LET shorter == SeqsUpTo(S, n - 1)
         IN  shorter \union {Append(s, x) : s \in {t \in shorter : Len(t) = n - 1}, x \in S}

\* ------------------------------------------------------- merge and filter

\* The dict key main() builds for an event: f"{e['name']}_{e['date']}_{e['location']}".
EventKey(e) == e.name \o "_" \o e.date \o "_" \o e.location

\* One insertion of a dict comprehension: a key already present keeps its
\* position and takes the new value, a new key goes to the end.
DictPut(d, k, v) ==
    IF \E i \in 1..Len(d) : d[i].key = k
    THEN [i \in 1..Len(d) |-> IF d[i].key = k THEN [key |-> k, value |-> v] ELSE d[i]]
    ELSE Append(d, [key |-> k, value |-> v])

RECURSIVE DictOfEvents(_, _)
DictOfEvents(d, events) ==
    IF events = <<>> THEN d
    ELSE DictOfEvents(DictPut(d, EventKey(Head(events)), Head(events)), Tail(events))

\* A plausible slip: the passes are concatenated and never deduplicated.
UniqueEventsNoDedup(combined_events) == combined_events

\* unique_events = list({key: e for e in combined_events}.values())
UniqueEvents(combined_events) ==
    LET d == DictOfEvents(<<>>, combined_events)
    IN  [i \in 1..Len(d) |-> d[i].value]

IsPlaceholder(e) ==
    e.date = NA /\ e.time = NA /\ e.name = NA /\ e.location = NA

\* A plausible slip: an event is dropped as soon as one field is missing.
FilterEventsAnyMissing(events) ==
    SelectSeq(events, LAMBDA e : ~(e.date = NA \/ e.time = NA \/ e.name = NA \/ e.location = NA))

\* filtered_events = [e for e in unique_events if not (all four fields == "N/A")]
FilterEvents(events) == SelectSeq(events, LAMBDA e : ~IsPlaceholder(e))

\* ------------------------------------------------------------ listing items

\* What find_element meets when the element is not in the listing item.
Absent == "<absent>"

Item(t, p, n, rs, rl) ==
    [title |-> t, price |-> p, passes |-> n, rating_score |-> rs, rating_label |-> rl]

ItemFull     == Item("Lot A", "$20", "1 pass", "9.1", "Great")
ItemNoRating == Item("Lot B", "$25", "1 pass", Absent, Absent)
ItemNoTitle  == Item(Absent, "$30", "1 pass", "8.0", "Good")

ScrollItems == {ItemFull, ItemNoRating, ItemNoTitle}

\* The three find_element calls raise NoSuchElementException on a missing element.
ExtractRaises(item) ==
    item.title = Absent \/ item.price = Absent \/ item.passes = Absent

\* The dict appended for a listing item whose extraction did not raise;
\* the rating fields come from find_elements and default to "".
ExtractListing(item) ==
    [title        |-> item.title,
     price        |-> item.price,
     passes       |-> item.passes,
     rating_score |-> IF item.rating_score = Absent THEN "" ELSE item.rating_score,
     rating_label |-> IF item.rating_label = Absent THEN "" ELSE item.rating_label]

\* The value attribute of the ticket-price input.
TicketPriceValue == "25"

\* The row main() builds for one listing of one seat of one event.
Row(event_info, seat_label, per_ticket_price, listing) ==
    [event_date           |-> event_info.date,
     event_time           |-> event_info.time,
     event_name           |-> event_info.name,
     event_location       |-> event_info.location,
     selected_seat        |-> seat_label,
     per_ticket_price     |-> per_ticket_price,
     listing_title        |-> listing.title,
     listing_price        |-> listing.price,
     listing_passes       |-> listing.passes,
     listing_rating_score |-> listing.rating_score,
     listing_rating_label |-> listing.rating_label]

\* ------------------------------------------------------------------- state

VARIABLES
    pc,                 \* where main() stands
    cards,              \* the event cards the listing page shows, in page order
    events_first_pass,  \* main(): result of the first scrape_events
    events_second_pass, \* main(): result of the second scrape_events
    unique_events,      \* main(): the merged passes
    filtered_events,    \* main(): unique_events without placeholders
    final_data,         \* main(): the accumulated rows
    rowOrigin,          \* history: for each row, the card and option the browser had clicked
    csv_file,           \* the rows last written to OUTPUT_CSV_FILE
    idx,                \* main(): index of the event loop
    success,            \* main(): result of interact_with_event_and_select_tickets
    all_seat_labels,    \* main(): result of get_all_seats_labels
    seat_idx,           \* main(): index of the seat loop
    win,                \* the open windows: handle -> page shown, card and option clicked in it
    current,            \* the handle driver commands go to
    seatOptions,        \* the texts of the seat dropdown's options, in menu order
    pageItems,          \* the listing items a comparison page renders, in page order
    cardOpensTab,       \* a click on an event card opens the wizard in a new tab (else in the same tab)
    uploadLater,        \* the ticket-type form offers "I'll upload later"
    pageGrowsForever,   \* the comparison page is taller at every measurement, with or without new items
    autoForward,        \* the seat page goes on to the price page by itself once an option is chosen
    shown,              \* how many of pageItems are rendered now
    scrollHeight,       \* document.body.scrollHeight of the comparison page
    ticket_price,       \* interact_with_ticket_price_page: the price read
    old_handles,        \* interact_with_ticket_price_page: handles before the compare click
    new_compare_tab,    \* interact_with_ticket_price_page: the compare tab, or NoTab
    listings,           \* interact_with_ticket_price_page: listings collected so far
    listingPos,         \* history: for each collected listing, its position on the page
    iterations,         \* history: iterations of `while True` completed on this page
    tried,              \* history: the page positions extraction was invoked on, in order
    last_height,        \* interact_with_ticket_price_page: height before the last scroll
    faults,             \* waits the environment has let time out so far
    login,              \* wait_for_manual_login: "waiting", then "ok" or "timeout"
    exit_status         \* the status the process ends with

scrapeVars  == <<cards, events_first_pass, events_second_pass, unique_events, filtered_events>>
outVars     == <<final_data, rowOrigin, csv_file>>
loopVars    == <<idx, success, all_seat_labels, seat_idx>>
browserVars == <<win, current>>
envVars     == <<seatOptions, pageItems, cardOpensTab, uploadLater, autoForward,
                 pageGrowsForever>>
renderVars  == <<shown, scrollHeight>>
priceVars   == <<ticket_price, old_handles, new_compare_tab>>
scrollVars  == <<listings, listingPos, tried, iterations, last_height>>
runVars     == <<login, exit_status>>

vars == <<pc, scrapeVars, outVars, loopVars, browserVars, envVars, renderVars,
          priceVars, scrollVars, faults, runVars>>

NoTab   == -1
NoPrice == "None"

Window(page, card, option) == [page |-> page, card |-> card, option |-> option]

\* driver.window_handles
Handles == DOMAIN win

FirstWindow == (OriginalWindow :> Window("EventList", 0, 0))

\* The handle the browser gives the next tab it opens.
NewHandle == CHOOSE h \in 1..(Cardinality(Handles) + 1) :
                 h \notin Handles /\ \A g \in 1..(h - 1) : g \in Handles

\* driver.close() on handle h.
CloseWindow(w, h) == [g \in (DOMAIN w) \ {h} |-> w[g]]

\* The page the current window shows ("" once that window is closed).
CurrentPage == IF current \in Handles THEN win[current].page ELSE ""

\* The environment may let a wait time out although its element is there.
MayFault == faults < MaxFaults

\* ------------------------------------------------------- main(): the login

\* driver.quit()
NoWindows == [h \in {} |-> Window("", 0, 0)]

\* wait_for_manual_login (202-220), called inside main()'s try: the "Sell"
\* link appears within the 300 s, or the wait times out, the browser is quit
\* and exit(1) raises SystemExit, which `except Exception` does not catch and
\* which leaves through the finally clause.
WaitForManualLogin ==
    /\ pc = "login"
    /\ \/ /\ login' = "ok"
          /\ pc' = "scrape_first"
          /\ UNCHANGED <<win, exit_status>>
       \/ /\ login' = "timeout"
          /\ win' = NoWindows
          /\ exit_status' = 1
          /\ pc' = "finally"
    /\ UNCHANGED <<scrapeVars, outVars, loopVars, current, envVars, renderVars,
                   priceVars, scrollVars, faults>>

\* ----------------------------------------------------- main(): the scrapes

\* scrape_events: one event per card, or [] when the wait for the list times out.
ScrapedEvents(ok) == IF ok THEN cards ELSE <<>>

ScrapeFirst ==
    /\ pc = "scrape_first"
    /\ \E ok \in BOOLEAN :
          /\ ok \/ MayFault
          /\ events_first_pass' = ScrapedEvents(ok)
          /\ faults' = IF ok THEN faults ELSE faults + 1
    /\ pc' = "scrape_second"
    /\ UNCHANGED <<cards, events_second_pass, unique_events, filtered_events, outVars,
                   loopVars, browserVars, envVars, renderVars, priceVars, scrollVars>>
    /\ UNCHANGED runVars

ScrapeSecond ==
    /\ pc = "scrape_second"
    /\ \E ok \in BOOLEAN :
          /\ ok \/ MayFault
          /\ events_second_pass' = ScrapedEvents(ok)
          /\ faults' = IF ok THEN faults ELSE faults + 1
    /\ pc' = "merge"
    /\ UNCHANGED <<cards, events_first_pass, unique_events, filtered_events, outVars,
                   loopVars, browserVars, envVars, renderVars, priceVars, scrollVars>>
    /\ UNCHANGED runVars

\* A plausible slip: the break compares with > and lets index
\* MAX_EVENTS_TO_SCRAPE through.
EventLoopPcOneMore(events, i) ==
    IF i >= Len(events) \/ i > MAX_EVENTS_TO_SCRAPE THEN "finally" ELSE "open_event"

\* for idx, event_info in enumerate(filtered_events), with the
\* MAX_EVENTS_TO_SCRAPE break: where main() goes with loop index i.
EventLoopPc(events, i) ==
    IF i >= Len(events) \/ i >= MAX_EVENTS_TO_SCRAPE THEN "finally" ELSE "open_event"

\* main() lines 110-130: combine, deduplicate, filter; return when nothing is
\* left.  The two passes are not read again.
MergeAndFilter ==
    /\ pc = "merge"
    /\ unique_events' = UniqueEvents(events_first_pass \o events_second_pass)
    /\ filtered_events' = FilterEvents(unique_events')
    /\ events_first_pass' = <<>>
    /\ events_second_pass' = <<>>
    /\ pc' = IF filtered_events' = <<>> THEN "finally" ELSE EventLoopPc(filtered_events', idx)
    /\ UNCHANGED <<cards, outVars, loopVars, browserVars, envVars, renderVars, priceVars,
                   scrollVars, faults>>
    /\ UNCHANGED runVars

\* ------------------------------------------------- main(): the event loop

\* The event loop moves on to its next index.
NextEvent ==
    /\ idx' = idx + 1
    /\ pc' = EventLoopPc(filtered_events, idx + 1)

\* The except clauses of interact_with_event_and_select_tickets: every window
\* but original_window is closed, original_window becomes current, False.
OpenFailed ==
    /\ win' = [h \in {OriginalWindow} |-> win[h]]
    /\ current' = OriginalWindow
    /\ success' = FALSE
    /\ pc' = "open_returned"

\* len(event_cards) at line 377: the cards the page shows when they are
\* re-found.  The page shows the cards it showed to the scrapes, or, as one of
\* the environment's deviations, it has lost cards since and no longer shows
\* card event_index.
CardsFound == {Len(cards)} \union {n \in 1..idx : MayFault /\ n < Len(cards)}

\* Lines 368-386: back to original_window, re-find the cards, click card event_index.
\* The click opens the event's wizard in a new tab, or loads it in the tab of
\* the event list, as the site decides.
OpenEventClick ==
    /\ pc = "open_event"
    /\ \/ /\ win[OriginalWindow].page = "EventList"
          /\ Len(cards) > 0
          /\ \E found \in CardsFound :
                /\ IF idx >= found
                   THEN /\ current' = OriginalWindow
                        /\ success' = FALSE
                        /\ pc' = "open_returned"
                        /\ UNCHANGED win
                   ELSE /\ win' = IF cardOpensTab
                                  THEN (NewHandle :> Window("QuantityForm", idx + 1, 0)) @@ win
                                  ELSE [win EXCEPT ![OriginalWindow] =
                                                      Window("QuantityForm", idx + 1, 0)]
                        /\ current' = OriginalWindow
                        /\ pc' = "open_wait_tab"
                        /\ UNCHANGED success
                /\ faults' = IF found < Len(cards) THEN faults + 1 ELSE faults
       \/ /\ MayFault \/ win[OriginalWindow].page # "EventList" \/ Len(cards) = 0
          /\ faults' = IF win[OriginalWindow].page = "EventList" /\ Len(cards) > 0
                       THEN faults + 1 ELSE faults
          /\ OpenFailed
    /\ UNCHANGED <<scrapeVars, outVars, idx, all_seat_labels, seat_idx, envVars,
                   renderVars, priceVars, scrollVars>>
    /\ UNCHANGED runVars

\* Lines 388-399: WebDriverWait(...).until(EC.number_of_windows_to_be(2)), then
\* switch to the window that is not original_window.
OpenWaitTab ==
    /\ pc = "open_wait_tab"
    /\ IF Cardinality(Handles) = 2
       THEN /\ current' = CHOOSE w \in Handles : w # OriginalWindow
            /\ pc' = "open_quantity"
            /\ UNCHANGED <<win, success>>
       ELSE OpenFailed
    /\ UNCHANGED <<scrapeVars, outVars, idx, all_seat_labels, seat_idx, envVars,
                   renderVars, priceVars, scrollVars, faults>>
    /\ UNCHANGED runVars

\* Lines 401-432: the quantity question, "1 Ticket", the two Continue buttons.
OpenQuantityForm ==
    /\ pc = "open_quantity"
    /\ \/ /\ CurrentPage = "QuantityForm"
          /\ win' = [win EXCEPT ![current].page = "TicketTypeForm"]
          /\ pc' = "open_ticket_type"
          /\ UNCHANGED <<current, success, faults>>
       \/ /\ MayFault \/ CurrentPage # "QuantityForm"
          /\ faults' = IF CurrentPage = "QuantityForm" THEN faults + 1 ELSE faults
          /\ OpenFailed
    /\ UNCHANGED <<scrapeVars, outVars, idx, all_seat_labels, seat_idx, envVars,
                   renderVars, priceVars, scrollVars>>
    /\ UNCHANGED runVars

\* The waits of lines 434-466 can all be satisfied: the current page is the
\* ticket-type form, and it has the "I'll upload later" element that line 449
\* waits for.
TicketTypeWaitsCanPass == CurrentPage = "TicketTypeForm" /\ uploadLater

\* Lines 434-466: the ticket-type question, E-Tickets, "I'll upload later",
\* the final Continue; return True.
OpenTicketType ==
    /\ pc = "open_ticket_type"
    /\ \/ /\ TicketTypeWaitsCanPass
          /\ win' = [win EXCEPT ![current].page = "SeatSelect"]
          /\ success' = TRUE
          /\ pc' = "open_returned"
          /\ UNCHANGED <<current, faults>>
       \/ /\ MayFault \/ ~TicketTypeWaitsCanPass
          /\ faults' = IF TicketTypeWaitsCanPass THEN faults + 1 ELSE faults
          /\ OpenFailed
    /\ UNCHANGED <<scrapeVars, outVars, idx, all_seat_labels, seat_idx, envVars,
                   renderVars, priceVars, scrollVars>>
    /\ UNCHANGED runVars

\* for seat_idx, seat_label in enumerate(all_seat_labels): where main() goes
\* with loop index i.
SeatLoopPc(labels, i) == IF i >= Len(labels) THEN "event_finish" ELSE "select_seat"

\* labels = [option.text for option in options if option.text.strip()]
SeatLabels(options) == SelectSeq(options, LAMBDA t : t # "")

\* main() lines 143-149 with get_all_seats_labels (488-519): a failed open skips
\* the event; otherwise the labels of the dropdown on the current page, or []
\* when a wait times out.
AfterOpen ==
    /\ pc = "open_returned"
    /\ IF ~success
       THEN /\ NextEvent
            /\ UNCHANGED <<all_seat_labels, seat_idx, faults>>
       ELSE /\ \/ /\ CurrentPage = "SeatSelect" /\ Len(seatOptions) > 0
                  /\ all_seat_labels' = SeatLabels(seatOptions)
                  /\ UNCHANGED faults
               \/ /\ MayFault \/ CurrentPage # "SeatSelect" \/ Len(seatOptions) = 0
                  /\ faults' = IF CurrentPage = "SeatSelect" /\ Len(seatOptions) > 0
                               THEN faults + 1 ELSE faults
                  /\ all_seat_labels' = <<>>
            /\ seat_idx' = 0
            /\ pc' = SeatLoopPc(all_seat_labels', 0)
            /\ UNCHANGED idx
    /\ UNCHANGED <<scrapeVars, outVars, success, browserVars, envVars, renderVars,
                   priceVars, scrollVars>>
    /\ UNCHANGED runVars

\* -------------------------------------------------- main(): the seat loop

\* main()'s `continue` of the seat loop.
NextSeat ==
    /\ seat_idx' = seat_idx + 1
    /\ pc' = SeatLoopPc(all_seat_labels, seat_idx + 1)

\* The option select_seat_in_dropdown clicks: options[seat_index] of the
\* dropdown's own option list (positions from 1 here).
OptionClicked(seat_index) == seat_index + 1

\* select_seat_in_dropdown lines 526-546: open the dropdown of the current
\* page, click options[seat_index].
SelectSeatOption ==
    /\ pc = "select_seat"
    /\ \/ /\ CurrentPage = "SeatSelect" /\ Len(seatOptions) > 0
          /\ IF seat_idx >= Len(seatOptions)
             THEN /\ NextSeat
                  /\ UNCHANGED win
             ELSE /\ win' = [win EXCEPT ![current].option = OptionClicked(seat_idx),
                                         ![current].page = IF autoForward THEN "PricePage"
                                                           ELSE @]
                  /\ pc' = "seat_confirm"
                  /\ UNCHANGED seat_idx
          /\ UNCHANGED faults
       \/ /\ MayFault \/ CurrentPage # "SeatSelect" \/ Len(seatOptions) = 0
          /\ faults' = IF CurrentPage = "SeatSelect" /\ Len(seatOptions) > 0
                       THEN faults + 1 ELSE faults
          /\ NextSeat
          /\ UNCHANGED win
    /\ UNCHANGED <<scrapeVars, outVars, idx, success, all_seat_labels, current, envVars,
                   renderVars, priceVars, scrollVars>>
    /\ UNCHANGED runVars

\* A plausible slip: the timeout ends the event's seat loop.
ConfirmTimedOutEndsEvent ==
    /\ seat_idx' = Len(all_seat_labels)
    /\ pc' = "event_finish"

\* What main() does when the wait for the Continue button of the seat page
\* times out: select_seat_in_dropdown returns False and the seat is skipped.
ConfirmTimedOut == NextSeat

\* select_seat_in_dropdown lines 548-561: wait for Continue, click it; the
\* wizard then shows the price page.  The Continue of the seat page is the
\* only button the wait can find: a page that went on by itself has none.
SeatConfirm ==
    /\ pc = "seat_confirm"
    /\ \/ /\ CurrentPage = "SeatSelect"
          /\ win' = [win EXCEPT ![current].page = "PricePage"]
          /\ pc' = "price_page"
          /\ UNCHANGED <<seat_idx, faults>>
       \/ /\ MayFault \/ CurrentPage # "SeatSelect"
          /\ faults' = IF CurrentPage = "SeatSelect" THEN faults + 1 ELSE faults
          /\ ConfirmTimedOut
          /\ UNCHANGED win
    /\ UNCHANGED <<scrapeVars, outVars, idx, success, all_seat_labels, current, envVars,
                   renderVars, priceVars, scrollVars>>
    /\ UNCHANGED runVars

\* ------------------------------------- interact_with_ticket_price_page

\* interact_with_ticket_price_page has returned: its locals are gone, and the
\* script never looks at that comparison page again.
PriceLocalsGone ==
    /\ ticket_price' = NoPrice
    /\ old_handles' = {}
    /\ new_compare_tab' = NoTab
    /\ listings' = <<>>
    /\ listingPos' = <<>>
    /\ tried' = <<>>
    /\ iterations' = 0
    /\ last_height' = 0
    /\ shown' = 0
    /\ scrollHeight' = 0

\* Lines 570-605: read the price, click "Compare similar tickets", wait for a
\* new tab, a new address or the listings container, switch to a new tab.  The
\* comparison opens in a new tab or in the same tab, as the site decides.
ComparePageOpen ==
    /\ pc = "price_page"
    /\ \/ /\ CurrentPage = "PricePage"
          /\ ticket_price' = TicketPriceValue
          /\ old_handles' = Handles
          /\ \E n \in 0..Len(pageItems) :
                /\ shown' = n
                /\ scrollHeight' = 100
          /\ \/ /\ win' = (NewHandle :> Window("ComparePage", win[current].card,
                                                win[current].option)) @@ win
                /\ new_compare_tab' = NewHandle
                /\ current' = NewHandle
             \/ /\ win' = [win EXCEPT ![current].page = "ComparePage"]
                /\ new_compare_tab' = NoTab
                /\ UNCHANGED current
          /\ pc' = "listings_container"
          /\ UNCHANGED <<seat_idx, faults>>
       \/ /\ MayFault \/ CurrentPage # "PricePage"
          /\ faults' = IF CurrentPage = "PricePage" THEN faults + 1 ELSE faults
          /\ NextSeat
          /\ UNCHANGED <<browserVars, renderVars, priceVars>>
    /\ UNCHANGED <<scrapeVars, outVars, idx, success, all_seat_labels, envVars, scrollVars>>
    /\ UNCHANGED runVars

\* Lines 607-613: wait for #listings-container, start the collection.  On a
\* timeout the function returns (None, []) as it stands.
ListingsContainer ==
    /\ pc = "listings_container"
    /\ \/ /\ listings' = <<>>
          /\ listingPos' = <<>>
          /\ tried' = <<>>
          /\ iterations' = 0
          /\ last_height' = scrollHeight
          /\ pc' = "scroll_loop"
          /\ UNCHANGED <<seat_idx, faults>>
          /\ UNCHANGED <<renderVars, priceVars>>
       \/ /\ MayFault
          /\ faults' = faults + 1
          /\ NextSeat
          /\ PriceLocalsGone
    /\ UNCHANGED <<scrapeVars, outVars, idx, success, all_seat_labels, browserVars, envVars>>
    /\ UNCHANGED runVars

\* A plausible slip: the slice starts one item too far.
SliceStartSkipsOne(collected) == Len(collected) + 2

\* The first position of visible_listings the loop extracts in an iteration:
\* visible_listings[len(listings):] (positions from 1 here).
SliceStart(collected) == Len(collected) + 1

\* The page positions the for loop of one iteration visits, in order.
Slice(from, upto) == [i \in 1..(IF upto >= from THEN upto - from + 1 ELSE 0) |-> from + i - 1]

\* The listings (and their page positions) the for loop of one iteration adds:
\* the items from position `from` to `upto` whose extraction does not raise.
RECURSIVE Extracted(_, _, _)
Extracted(items, from, upto) ==
    IF from > upto THEN <<>>
    ELSE (IF ExtractRaises(items[from]) THEN <<>>
          ELSE <<[listing |-> ExtractListing(items[from]), pos |-> from]>>)
         \o Extracted(items, from + 1, upto)

\* How many items a scroll to the bottom makes the page render: pageItems are
\* the items the page renders before it stops growing, so it grows while some
\* remain.
Growth(remaining) == IF remaining > 0 THEN 1..remaining ELSE {0}

\* Lines 615-645, one iteration of `while True`: extract the new slice, scroll
\* to the bottom, measure; a page that rendered more items has become taller,
\* and so has a page that never stops growing.  Such a page is followed for
\* MaxScrolls iterations.
ScrollIteration ==
    /\ pc = "scroll_loop"
    /\ pageGrowsForever => iterations < MaxScrolls
    /\ iterations' = iterations + 1
    /\ LET new == Extracted(pageItems, SliceStart(listings), shown)
       IN  /\ listings' = listings \o [i \in 1..Len(new) |-> new[i].listing]
           /\ listingPos' = listingPos \o [i \in 1..Len(new) |-> new[i].pos]
    /\ tried' = tried \o Slice(SliceStart(listings), shown)
    /\ \E more \in Growth(Len(pageItems) - shown) :
          /\ shown' = shown + more
          /\ scrollHeight' = IF more > 0 \/ pageGrowsForever THEN scrollHeight + 100
                              ELSE scrollHeight
    /\ IF scrollHeight' = last_height
       THEN /\ pc' = "compare_close"
            /\ UNCHANGED last_height
       ELSE /\ last_height' = scrollHeight'
            /\ pc' = "scroll_loop"
    /\ UNCHANGED <<scrapeVars, outVars, loopVars, browserVars, envVars, priceVars, faults>>
    /\ UNCHANGED runVars

\* The rows main() appends for a seat (lines 164-178).
RowsOf(event_info, seat_label, price, ls) ==
    [i \in 1..Len(ls) |-> Row(event_info, seat_label, price, ls[i])]

\* A plausible slip: a seat without listings is given one row with empty
\* listing fields.
SeatRowsAlsoWithoutListings(event_info, seat_label, price, ls) ==
    IF ls = <<>>
    THEN <<Row(event_info, seat_label, price,
               [title |-> "", price |-> "", passes |-> "", rating_score |-> "",
                rating_label |-> ""])>>
    ELSE RowsOf(event_info, seat_label, price, ls)

\* main() lines 160-178: no row when there is no listing or no price
\* (`continue`), else one row per listing.
SeatRows(event_info, seat_label, price, ls) ==
    IF ls = <<>> \/ price = NoPrice THEN <<>>
    ELSE RowsOf(event_info, seat_label, price, ls)

\* A plausible slip: the new rows are put in front of the old ones.
AppendRowsInFront(data, rows) == rows \o data

\* final_data.append(row_data) for each row of the seat, in order (164-178).
AppendRows(data, rows) == data \o rows

\* Lines 647-658 and main() lines 159-178: close the compare tab if one was
\* opened and switch to the first handle of old_handles that is still open
\* (window_handles comes in no guaranteed order), return (price, listings);
\* main() appends one row per listing unless there is none.
CompareClose ==
    /\ pc = "compare_close"
    /\ IF new_compare_tab # NoTab /\ new_compare_tab \in Handles
       THEN /\ win' = CloseWindow(win, current)
            /\ \E wh \in old_handles \cap DOMAIN win' : current' = wh
       ELSE UNCHANGED browserVars
    /\ final_data' = AppendRows(final_data,
                          SeatRows(filtered_events[idx + 1], all_seat_labels[seat_idx + 1],
                                   ticket_price, listings))
    /\ rowOrigin' = rowOrigin \o
                   [i \in 1..Len(listings) |->
                       [event_index |-> idx, seat_index |-> seat_idx,
                        card |-> win[current].card, option |-> win[current].option,
                        pos |-> listingPos[i]]]
    /\ NextSeat
    /\ PriceLocalsGone
    /\ UNCHANGED <<scrapeVars, csv_file, idx, success, all_seat_labels, envVars, faults>>
    /\ UNCHANGED runVars

\* write_data_to_csv: the file is rewritten with all rows, unless there is none.
WriteCsv(rows) == IF rows = <<>> THEN csv_file ELSE rows

\* A plausible slip: the error handler of main() ends the process with a
\* failure status.
StatusAfterMainErrorFails(status) == 1

\* main() lines 190-191: `except Exception` logs the error and falls through
\* to the finally clause, so the exit status stays as it was.
StatusAfterMainError(status) == status

\* A plausible slip: the guard forgets to compare with original_window.
ClosesAtEventEndAnyWindow == Cardinality(Handles) > 1

\* main() line 181: the condition under which line 182 closes the current window.
ClosesAtEventEnd == Cardinality(Handles) > 1 /\ current # OriginalWindow

\* main() lines 180-188: close the current tab unless it is original_window,
\* switch to original_window, write the rows so far.  A driver command of
\* lines 181-183 may raise (the browser is gone): main()'s except clause logs
\* it and the finally clause follows, with no write.
EventFinish ==
    /\ pc = "event_finish"
    /\ \/ /\ win' = IF ClosesAtEventEnd THEN CloseWindow(win, current) ELSE win
          /\ current' = OriginalWindow
          /\ csv_file' = WriteCsv(final_data)
          /\ NextEvent
          /\ UNCHANGED <<faults, exit_status>>
       \/ /\ MayFault
          /\ faults' = faults + 1
          /\ exit_status' = StatusAfterMainError(exit_status)
          /\ pc' = "finally"
          /\ UNCHANGED <<browserVars, csv_file, idx>>
    /\ UNCHANGED <<scrapeVars, final_data, rowOrigin, success, all_seat_labels, seat_idx,
                   envVars, renderVars, priceVars, scrollVars, login>>

\* main()'s finally clause: driver.quit() closes every window.
Finally ==
    /\ pc = "finally"
    /\ win' = NoWindows
    /\ pc' = "done"
    /\ UNCHANGED <<scrapeVars, outVars, loopVars, current, envVars, renderVars, priceVars,
                   scrollVars, faults>>
    /\ UNCHANGED runVars

\* ------------------------------------------------------ the specifications

\* The seat dropdowns of a run: each option is blank or carries a label, and
\* the labels are named in menu order.
SeatNames == <<"A", "B", "C", "D">>

NamedOptions(blank) ==
    [i \in 1..Len(blank) |->
        IF blank[i] THEN ""
        ELSE SeatNames[Cardinality({j \in 1..i : ~blank[j]})]]

OptionLists == {NamedOptions(blank) : blank \in SeqsUpTo(BOOLEAN, MaxOptions)}

\* The comparison pages of a run: up to MaxListings complete items, or a page
\* whose first item lacks its title.
ComparePages == SeqsUpTo({ItemFull}, MaxListings) \union {<<ItemNoTitle, ItemFull>>}

Init ==
    /\ pc = "login"
    /\ cards \in SeqsUpTo(PageEvents, MaxCards)
    /\ seatOptions \in OptionLists
    /\ pageItems \in ComparePages
    /\ cardOpensTab \in BOOLEAN
    /\ uploadLater \in BOOLEAN
    /\ autoForward \in BOOLEAN
    /\ pageGrowsForever = FALSE
    /\ events_first_pass = <<>>
    /\ events_second_pass = <<>>
    /\ unique_events = <<>>
    /\ filtered_events = <<>>
    /\ final_data = <<>>
    /\ rowOrigin = <<>>
    /\ csv_file = <<>>
    /\ idx = 0
    /\ success = FALSE
    /\ all_seat_labels = <<>>
    /\ seat_idx = 0
    /\ win = FirstWindow
    /\ current = OriginalWindow
    /\ shown = 0
    /\ scrollHeight = 0
    /\ ticket_price = NoPrice
    /\ old_handles = {}
    /\ new_compare_tab = NoTab
    /\ listings = <<>>
    /\ listingPos = <<>>
    /\ tried = <<>>
    /\ iterations = 0
    /\ last_height = 0
    /\ faults = 0
    /\ login = "waiting"
    /\ exit_status = 0

Next ==
    \/ WaitForManualLogin
    \/ ScrapeFirst
    \/ ScrapeSecond
    \/ MergeAndFilter
    \/ OpenEventClick
    \/ OpenWaitTab
    \/ OpenQuantityForm
    \/ OpenTicketType
    \/ AfterOpen
    \/ SelectSeatOption
    \/ SeatConfirm
    \/ ComparePageOpen
    \/ ListingsContainer
    \/ ScrollIteration
    \/ CompareClose
    \/ EventFinish
    \/ Finally

Spec == Init /\ [][Next]_vars

\* Long event lists: a listing page with one card fewer than
\* MAX_EVENTS_TO_SCRAPE, with as many, or with more, all events different;
\* each event has one seat and one complete listing.
CapNames == <<"E1", "E2", "E3", "E4", "E5", "E6", "E7", "E8", "E9", "E10">>

CapCards == [i \in 1..Len(CapNames) |-> Event("Jun 3", "7pm", CapNames[i], "Dome")]

InitCap ==
    /\ pc = "login"
    /\ cards \in {SubSeq(CapCards, 1, n) : n \in (MAX_EVENTS_TO_SCRAPE - 1)..Len(CapCards)}
    /\ seatOptions = <<"A">>
    /\ pageItems = <<ItemFull>>
    /\ cardOpensTab = TRUE
    /\ uploadLater = TRUE
    /\ autoForward = FALSE
    /\ pageGrowsForever = FALSE
    /\ events_first_pass = <<>>
    /\ events_second_pass = <<>>
    /\ unique_events = <<>>
    /\ filtered_events = <<>>
    /\ final_data = <<>>
    /\ rowOrigin = <<>>
    /\ csv_file = <<>>
    /\ idx = 0
    /\ success = FALSE
    /\ all_seat_labels = <<>>
    /\ seat_idx = 0
    /\ win = FirstWindow
    /\ current = OriginalWindow
    /\ shown = 0
    /\ scrollHeight = 0
    /\ ticket_price = NoPrice
    /\ old_handles = {}
    /\ new_compare_tab = NoTab
    /\ listings = <<>>
    /\ listingPos = <<>>
    /\ tried = <<>>
    /\ iterations = 0
    /\ last_height = 0
    /\ faults = 0
    /\ login = "waiting"
    /\ exit_status = 0

SpecCap == InitCap /\ [][Next]_vars

\* The merge and the filter on their own: the two passes are any two short
\* sequences of events, and the one step applies main()'s lines 110-123.
ApplyMerge ==
    /\ pc = "merge_passes"
    /\ unique_events' = UniqueEvents(events_first_pass \o events_second_pass)
    /\ filtered_events' = FilterEvents(unique_events')
    /\ pc' = "merged"
    /\ UNCHANGED <<cards, events_first_pass, events_second_pass, outVars, loopVars,
                   browserVars, envVars, renderVars, priceVars, scrollVars, faults>>
    /\ UNCHANGED runVars

InitMerge ==
    /\ pc = "merge_passes"
    /\ events_first_pass \in SeqsUpTo(MergeEvents, MaxPassLen)
    /\ events_second_pass \in SeqsUpTo(MergeEvents, MaxPassLen)
    /\ cards = <<>>
    /\ seatOptions = <<>>
    /\ pageItems = <<>>
    /\ cardOpensTab = TRUE
    /\ uploadLater = TRUE
    /\ autoForward = FALSE
    /\ pageGrowsForever = FALSE
    /\ unique_events = <<>>
    /\ filtered_events = <<>>
    /\ final_data = <<>>
    /\ rowOrigin = <<>>
    /\ csv_file = <<>>
    /\ idx = 0
    /\ success = FALSE
    /\ all_seat_labels = <<>>
    /\ seat_idx = 0
    /\ win = FirstWindow
    /\ current = OriginalWindow
    /\ shown = 0
    /\ scrollHeight = 0
    /\ ticket_price = NoPrice
    /\ old_handles = {}
    /\ new_compare_tab = NoTab
    /\ listings = <<>>
    /\ listingPos = <<>>
    /\ tried = <<>>
    /\ iterations = 0
    /\ last_height = 0
    /\ faults = 0
    /\ login = "ok"
    /\ exit_status = 0

NextMerge == ApplyMerge

SpecMerge == InitMerge /\ [][NextMerge]_vars

\* The scroll loop on its own: a comparison page has just loaded in the
\* wizard's tab with some of its items rendered, and the collection starts.
InitScroll ==
    /\ pc = "scroll_loop"
    /\ pageItems \in SeqsUpTo(ScrollItems, MaxListings)
    /\ cardOpensTab = TRUE
    /\ uploadLater = TRUE
    /\ autoForward = FALSE
    /\ pageGrowsForever \in BOOLEAN
    /\ shown \in 0..Len(pageItems)
    /\ scrollHeight = 100
    /\ last_height = 100
    /\ listings = <<>>
    /\ listingPos = <<>>
    /\ tried = <<>>
    /\ iterations = 0
    /\ cards = <<EvShow>>
    /\ seatOptions = <<"A">>
    /\ events_first_pass = <<>>
    /\ events_second_pass = <<>>
    /\ unique_events = <<EvShow>>
    /\ filtered_events = <<EvShow>>
    /\ final_data = <<>>
    /\ rowOrigin = <<>>
    /\ csv_file = <<>>
    /\ idx = 0
    /\ success = TRUE
    /\ all_seat_labels = <<"A">>
    /\ seat_idx = 0
    /\ win = (1 :> Window("ComparePage", 1, 1)) @@ FirstWindow
    /\ current = 1
    /\ ticket_price = TicketPriceValue
    /\ old_handles = {OriginalWindow, 1}
    /\ new_compare_tab = NoTab
    /\ faults = 0
    /\ login = "ok"
    /\ exit_status = 0

NextScroll == ScrollIteration

SpecScroll == InitScroll /\ [][NextScroll]_vars

\* ------------------------------------------------------------------ claims

Range(f) == {f[i] : i \in DOMAIN f}

\* How often x occurs in sequence f.
Count(f, x) == Cardinality({i \in DOMAIN f : f[i] = x})

\* C1.  A run over 2 events, each offering 2 seats, each seat's comparison
\* page showing 3 listings, in which no wait is let time out by the site,
\* ends with exactly 12 rows: one per (event, seat, listing) triple.
C1_TwelveRows ==
    (/\ pc = "done"
     /\ faults = 0
     /\ cardOpensTab /\ uploadLater /\ ~autoForward
     /\ Len(cards) = 2 /\ Len(filtered_events) = 2
     /\ seatOptions = <<"A", "B">>
     /\ pageItems = <<ItemFull, ItemFull, ItemFull>>)
    => /\ Len(final_data) = 12
       /\ \A e \in 0..1, st \in 0..1, p \in 1..3 :
             \E i \in 1..Len(rowOrigin) :
                /\ rowOrigin[i].event_index = e
                /\ rowOrigin[i].seat_index = st
                /\ rowOrigin[i].pos = p

\* C2.  Every row carries the four event fields of the card that was clicked
\* to open the wizard the row was harvested in.
C2_RowCarriesClickedCard ==
    \A i \in 1..Len(final_data) :
        /\ rowOrigin[i].card \in 1..Len(cards)
        /\ final_data[i].event_date = cards[rowOrigin[i].card].date
        /\ final_data[i].event_time = cards[rowOrigin[i].card].time
        /\ final_data[i].event_name = cards[rowOrigin[i].card].name
        /\ final_data[i].event_location = cards[rowOrigin[i].card].location

\* C3.  Blank options never become a seat of the loop, and every row's
\* selected_seat is the text of the dropdown option that was clicked for it.
C3_RowCarriesSelectedOption ==
    /\ \A k \in 1..Len(all_seat_labels) : all_seat_labels[k] # ""
    /\ \A i \in 1..Len(final_data) :
          /\ rowOrigin[i].option \in 1..Len(seatOptions)
          /\ final_data[i].selected_seat = seatOptions[rowOrigin[i].option]

\* C4.  When the controller begins an event (it is about to re-find the cards
\* and click one), original_window is the only open window.
C4_OnlyPrimaryAtEventStart ==
    pc = "open_event" => Handles = {OriginalWindow}

\* C5.  No failure crosses a unit boundary: opening an event fails only when
\* one of that event's own waits is let time out (or the page has no such
\* card, its ticket-type form lacks the element line 449 waits for, or its
\* wizard loads in the tab of the event list), never
\* because of what happened in an earlier event.
C5_OpenFailsOnlyByOwnTimeout ==
    [][(/\ pc \in {"open_event", "open_wait_tab", "open_quantity", "open_ticket_type"}
        /\ pc' = "open_returned"
        /\ ~success')
       => (faults' = faults + 1 \/ idx >= Len(cards) \/ ~uploadLater \/ ~cardOpensTab)]_vars

\* C6 as stated.  A timeout of the wait for Continue after a seat was chosen
\* aborts the event: the seat loop is left for the end of the event.
C6_ConfirmTimeoutAbortsEvent ==
    [][(pc = "seat_confirm" /\ pc' # "price_page") => pc' = "event_finish"]_vars

\* C6 as amended.  A timeout of the wait for Continue after a seat was chosen
\* aborts that seat only: no row is added, and the loop goes on with the next
\* seat of the same event, or to the end of the event after the last seat.
C6_ConfirmTimeoutSkipsSeat ==
    [][(pc = "seat_confirm" /\ pc' # "price_page")
       => /\ final_data' = final_data
          /\ idx' = idx
          /\ seat_idx' = seat_idx + 1
          /\ pc' = IF seat_idx + 1 < Len(all_seat_labels) THEN "select_seat"
                   ELSE "event_finish"]_vars

\* C6 witness: the confirm of the first seat timed out (its option is clicked,
\* the page is still the seat page) and the second seat is about to be chosen.
C6_Witness ==
    /\ pc = "select_seat"
    /\ seat_idx = 1
    /\ faults = 1
    /\ CurrentPage = "SeatSelect"
    /\ win[current].option = 1
    /\ final_data = <<>>

\* The events of a sequence that differ from all earlier ones in at least one
\* of the four fields, in order.
RECURSIVE DistinctInOrder(_)
DistinctInOrder(events) ==
    IF events = <<>> THEN <<>>
    ELSE LET front == SubSeq(events, 1, Len(events) - 1)
             last  == events[Len(events)]
         IN  IF \E i \in 1..Len(front) : front[i] = last
             THEN DistinctInOrder(front)
             ELSE Append(DistinctInOrder(front), last)

\* C7.  The merge returns the distinct events of the concatenated passes,
\* keyed by the 4-tuple, in first-seen order.
C7_MergeKeyedByFourTuple ==
    pc = "merged" => unique_events = DistinctInOrder(events_first_pass \o events_second_pass)

\* C8.  The merge is idempotent: merging a pass with itself gives what
\* merging the pass alone gives.
C8_MergeIdempotent ==
    (pc = "merged" /\ events_second_pass = events_first_pass)
    => unique_events = UniqueEvents(events_first_pass)

\* C8 witness: a pass of two events with one key was merged with itself.
C8_Witness ==
    /\ pc = "merged"
    /\ events_second_pass = events_first_pass
    /\ Len(events_first_pass) = 2
    /\ Len(unique_events) = 1

\* The positions of a sequence that hold something else than the placeholder.
KeptPositions(events) == {i \in 1..Len(events) : events[i] # EvPlaceholder}

\* C9.  The filter removes exactly the all-"N/A" events and keeps the others
\* in order; no all-"N/A" event is the event of a loop iteration or of a row.
C9_FilterDropsExactlyPlaceholders ==
    pc \notin {"login", "scrape_first", "scrape_second", "merge"}
    => /\ Len(filtered_events) = Cardinality(KeptPositions(unique_events))
       /\ \A i \in KeptPositions(unique_events) :
             filtered_events[Cardinality({j \in KeptPositions(unique_events) : j <= i})]
                = unique_events[i]
       /\ pc \notin {"finally", "done"} => filtered_events[idx + 1] # EvPlaceholder
       /\ \A r \in 1..Len(final_data) :
             ~(/\ final_data[r].event_date = NA /\ final_data[r].event_time = NA
               /\ final_data[r].event_name = NA /\ final_data[r].event_location = NA)

\* C9 witness: a placeholder was dropped, an event without its time was kept
\* and is the one being opened.
C9_Witness ==
    /\ pc = "open_event"
    /\ EvPlaceholder \in Range(unique_events)
    /\ filtered_events[idx + 1] = EvShowNoTime

\* C10.  The collection returns every rendered item that can be extracted
\* exactly once, and no page item twice, also when an earlier item's
\* extraction failed.
C10_EachItemCollectedOnce ==
    pc = "compare_close"
    => \A p \in 1..shown :
          Count(listingPos, p) = IF ExtractRaises(pageItems[p]) THEN 0 ELSE 1

\* The positions 1..n of a page whose items extraction does not raise on, in
\* page order.
GoodPositions(items, n) == SelectSeq(Slice(1, n), LAMBDA p : ~ExtractRaises(items[p]))

C12_AutoForwardIsHarvested ==
    [][(pc = "seat_confirm" /\ CurrentPage = "PricePage")
       => (pc' = "price_page" /\ win' = win)]_vars

\* C13.  The "I'll upload later" step is optional: on a ticket-type form that
\* does not offer it, and with no wait let time out, the step is skipped, the
\* wizard goes on to the seat page and the event is not aborted.
C13_UploadLaterOptional ==
    [][(/\ pc = "open_ticket_type"
        /\ CurrentPage = "TicketTypeForm"
        /\ ~uploadLater
        /\ faults' = faults)
       => /\ pc' = "open_returned"
          /\ success'
          /\ win'[current'].page = "SeatSelect"]_vars

\* C14.  After a seat's comparison harvest the wizard is navigated back to the
\* seat page before the next seat is selected: when the harvest returns to the
\* seat loop with a seat left, the current window shows the seat page.
C14_BackToSeatPageAfterHarvest ==
    [][(pc = "compare_close" /\ pc' = "select_seat")
       => win'[current'].page = "SeatSelect"]_vars

\* C15.  Once an event card is clicked, the wizard is reached when a window
\* that was not open before the click shows it or the clicked window itself
\* has gone to it (an address change): the open then goes on to the quantity
\* form and does not time out.
C15_NewContextOrAddressChangeAdvances ==
    [][(pc = "open_wait_tab" /\ \E h \in Handles : win[h].page = "QuantityForm")
       => pc' = "open_quantity"]_vars

\* C16.  When the run has ended, the exit status is non-zero exactly when the
\* post-login marker did not appear within the login bound; after every other
\* run, with failed events or seats or an exception caught by main(), it is 0.
C16_NonZeroExitIffLoginTimeout ==
    pc = "done" => (exit_status # 0 <=> login = "timeout")

\* C16 witness: after a login, an exception reached main() inside the event
\* loop (the loop was left with events remaining) and the run ended with 0.
C16_Witness ==
    /\ pc = "done"
    /\ login = "ok"
    /\ filtered_events # <<>>
    /\ idx < Len(filtered_events)
    /\ exit_status = 0

\* C17.  The artifact is written after each completed event and once more at
\* the end of the run: when the run has ended, the file holds every row that
\* was accumulated.
C17_ArtifactCompleteAtEnd ==
    pc = "done" => csv_file = final_data

\* Sequence s is an initial part of sequence t.
IsPrefix(s, t) == Len(s) <= Len(t) /\ SubSeq(t, 1, Len(s)) = s

\* C18.  Rows are only ever appended to final_data, and the file only ever
\* grows by rows at its end: in every step the old final_data is a prefix of
\* the new one, the old file content is a prefix of the new one, and the file
\* holds a prefix of final_data.
C18_RowsAndArtifactOnlyGrow ==
    [][/\ IsPrefix(final_data, final_data')
       /\ IsPrefix(csv_file, csv_file')
       /\ IsPrefix(csv_file', final_data')]_vars

\* C18 witness: the file has been written after a first event with rows and
\* written again after a second event that added rows.
C18_Witness ==
    /\ Len(csv_file) >= 2
    /\ rowOrigin[1].event_index = 0
    /\ rowOrigin[Len(csv_file)].event_index = 1
    /\ csv_file = final_data

\* C19.  original_window stays open for the whole run: until the browser is
\* quit (by the finally clause, or by the login step on a login timeout), no
\* close has removed it.
C19_PrimaryOpenUntilQuit ==
    (pc # "done" /\ login # "timeout") => OriginalWindow \in Handles

\* C19 witness: an event has ended while original_window was the current
\* window and a wizard tab was open beside it; original_window was not closed.
C19_Witness ==
    /\ pc = "open_event"
    /\ idx = 1
    /\ current = OriginalWindow
    /\ Cardinality(Handles) = 2
    /\ OriginalWindow \in Handles

\* C20.  An element of a listing that is not there yields the missing value
\* and never an error: when the collection of a comparison page has ended,
\* every item rendered on the page has contributed exactly one listing, an
\* item without title, price or passes included.
C20_EveryItemYieldsOneListing ==
    pc = "compare_close" => \A p \in 1..shown : Count(listingPos, p) = 1

\* C21.  The scroll loop has a ceiling on its iterations, so that it ends also
\* on a page that is taller at every measurement: once MaxScrolls iterations
\* are done on such a page, the loop has been left.  MaxScrolls stands for the
\* ceiling, whose value the claim leaves open.
C21_ScrollLoopHasCeiling ==
    (pageGrowsForever /\ iterations >= MaxScrolls) => pc # "scroll_loop"

\* C22.  When the comparison was opened in a new tab, the close after the
\* collection makes the wizard tab current again, the tab that was current at
\* the compare click and shows the price page, and not original_window.
C22_CloseReturnsToWizardTab ==
    [][(pc = "compare_close" /\ new_compare_tab # NoTab /\ new_compare_tab \in Handles)
       => /\ new_compare_tab \notin DOMAIN win'
          /\ current' # OriginalWindow
          /\ win'[current'].page = "PricePage"]_vars

\* C23.  Whenever interact_with_event_and_select_tickets returns False, by a
\* timeout, another exception or an event index beyond the cards on the page,
\* original_window is the only open window and it is the current one.
C23_FalseReturnLeavesOnlyPrimary ==
    [][(/\ pc \in {"open_event", "open_wait_tab", "open_quantity", "open_ticket_type"}
        /\ pc' = "open_returned"
        /\ ~success')
       => (Handles' = {OriginalWindow} /\ current' = OriginalWindow)]_vars

\* C24.  Rows are appended only for a seat whose harvest returned a price and
\* at least one listing, one row per listing: every other step, a failed open
\* of an event, a failed seat selection and a harvest without price or
\* without listings included, leaves final_data as it is.
C24_RowsOnlyForPricedListedSeat ==
    [][final_data' # final_data
       => /\ pc = "compare_close"
          /\ success
          /\ ticket_price # NoPrice
          /\ listings # <<>>
          /\ Len(final_data') = Len(final_data) + Len(listings)
          /\ IsPrefix(final_data, final_data')]_vars

\* C24 witness: rows of a first event are there, and the second event has
\* just failed to open; the rows are still the first event's.
C24_Witness ==
    /\ pc = "open_returned"
    /\ ~success
    /\ idx = 1
    /\ final_data # <<>>
    /\ \A i \in 1..Len(rowOrigin) : rowOrigin[i].event_index = 0
    /\ Len(final_data) = Len(rowOrigin)

\* C25.  At most MAX_EVENTS_TO_SCRAPE events are attempted in a run, failed
\* opens counted: the event loop never works on list index
\* MAX_EVENTS_TO_SCRAPE or a later one, also when more filtered events remain,
\* and no row comes from such an event.
C25_AtMostMaxEventsAttempted ==
    /\ idx <= MAX_EVENTS_TO_SCRAPE
    /\ pc \in {"open_event", "open_wait_tab", "open_quantity", "open_ticket_type",
                "open_returned", "select_seat", "seat_confirm", "price_page",
                "listings_container", "scroll_loop", "compare_close", "event_finish"}
          => idx < MAX_EVENTS_TO_SCRAPE
    /\ \A r \in 1..Len(final_data) :
          /\ rowOrigin[r].event_index < MAX_EVENTS_TO_SCRAPE
          /\ \A k \in 1..Len(filtered_events) :
                k > MAX_EVENTS_TO_SCRAPE
                   => final_data[r].event_name # filtered_events[k].name

\* C25 witness: a run over more than MAX_EVENTS_TO_SCRAPE events has ended at
\* the break, with a row of the last event it worked on.
C25_Witness ==
    /\ pc = "done"
    /\ Len(filtered_events) > MAX_EVENTS_TO_SCRAPE
    /\ idx = MAX_EVENTS_TO_SCRAPE
    /\ \E r \in 1..Len(final_data) :
          /\ rowOrigin[r].event_index = MAX_EVENTS_TO_SCRAPE - 1
          /\ final_data[r].event_name = filtered_events[MAX_EVENTS_TO_SCRAPE].name

====
